---- MODULE Spec2Model ----
(***************************************************************************)
(* Duty-Scheduler: the roster engine (src/src/models.py, src/src/solver.py) *)
(* as a state machine.  One RosterSolver object is constructed from an      *)
(* employee list, a date horizon, a holiday set, a point table and a role   *)
(* cap table; solve() then runs _create_variables, the constraint builders, *)
(* the CP-SAT search and the extraction of the roster and the summary.      *)
(*                                                                         *)
(* Dates are <<year, month, day>>.  Points are integers in tenths of a      *)
(* point (the solver's x10 weights); point table values are in hundredths.  *)
(***************************************************************************)
EXTENDS Integers, Sequences, FiniteSets, TLC

VARIABLES
    employees,        \* self.employees: sequence of Employee records
    date_range,       \* self.date_range: sequence of dates
    public_holidays,  \* self.public_holidays: set of dates
    point_values,     \* the point_values argument (hundredths of a point)
    role_max_shifts,  \* self.role_max_shifts: role -> cap (a partial function)
    variables,        \* self.variables: sequence of [key, var], dict order
    model_vars,       \* number of BoolVars created in self.model
    constraints,      \* linear constraints added to self.model
    employee_totals,  \* the objective's per-employee total expressions
    errors,           \* self.errors
    status,           \* the search status ("NOT_RUN" before Solve)
    solution,         \* set of BoolVars with value 1 after the search
    result,           \* what solve() returned
    pc,               \* position inside solve()
    returned,         \* what the earlier solve() calls on this object returned
    call              \* a call of a function outside solve(): its arguments and return value

vars == <<employees, date_range, public_holidays, point_values, role_max_shifts,
          variables, model_vars, constraints, employee_totals, errors, status,
          solution, result, pc, returned, call>>

inputs == <<employees, date_range, public_holidays, point_values, role_max_shifts>>

(***************************************************************************)
(* Bounds of the model.                                                    *)
(***************************************************************************)
MaxEmp == 6     \* largest roster
MaxDays == 2    \* longest horizon
MaxCalls == 2   \* solve() calls on one RosterSolver object
TwoHolidayDays == 3   \* the horizon that holds two public holidays a day apart
MaxRows == 2    \* longest Employees sheet
MaxEmpReuse == 3   \* largest roster of an object that is solved more than once

None == <<>>

(***************************************************************************)
(* models.py                                                               *)
(***************************************************************************)
TYPE_C_TEAMS == {"Blue", "Yellow", "Orange", "Green", "Purple", "Violet"}
TYPE_O_TEAMS == {"Black", "White", "Grey", "Red"}

OrgShifts == {"ORG_WEEKDAY_PM", "ORG_WEEKEND", "ORG_PH"}
TypeCShifts == {"TYPE_C_WEEKDAY_PM", "TYPE_C_WEEKEND_AM", "TYPE_C_WEEKEND_PM", "TYPE_C_PH"}
TypeOShifts == {"TYPE_O_WEEKDAY_PM", "TYPE_O_WEEKEND_AM", "TYPE_O_WEEKEND_PM", "TYPE_O_PH"}
Shift == OrgShifts \cup TypeCShifts \cup TypeOShifts

\* Shift.<member>.value
ShiftValue(s) ==
    CASE s = "ORG_WEEKDAY_PM"    -> "Org Weekday PM"
      [] s = "ORG_WEEKEND"       -> "Org Weekend"
      [] s = "ORG_PH"            -> "Org PH"
      [] s = "TYPE_C_WEEKDAY_PM" -> "Type C Weekday PM"
      [] s = "TYPE_C_WEEKEND_AM" -> "Type C Weekend AM"
      [] s = "TYPE_C_WEEKEND_PM" -> "Type C Weekend PM"
      [] s = "TYPE_C_PH"         -> "Type C PH"
      [] s = "TYPE_O_WEEKDAY_PM" -> "Type O Weekday PM"
      [] s = "TYPE_O_WEEKEND_AM" -> "Type O Weekend AM"
      [] s = "TYPE_O_WEEKEND_PM" -> "Type O Weekend PM"
      [] s = "TYPE_O_PH"         -> "Type O PH"

is_org(s) == s \in OrgShifts
is_type_c(s) == s \in TypeCShifts
is_type_o(s) == s \in TypeOShifts

category(s) ==
    IF is_org(s) THEN "Org"
    ELSE IF is_type_c(s) THEN "Type C"
    ELSE "Type O"

\* --- dates ---------------------------------------------------------------
IsLeap(y) == (y % 4 = 0 /\ y % 100 # 0) \/ y % 400 = 0

DaysInMonth(y, m) ==
    IF m = 2 THEN (IF IsLeap(y) THEN 29 ELSE 28)
    ELSE IF m \in {4, 6, 9, 11} THEN 30 ELSE 31

\* date < date
DateLT(a, b) ==
    \/ a[1] < b[1]
    \/ a[1] = b[1] /\ a[2] < b[2]
    \/ a[1] = b[1] /\ a[2] = b[2] /\ a[3] < b[3]

\* days since 1970-01-01 (a Thursday)
Ordinal(dt) ==
    LET y   == IF dt[2] <= 2 THEN dt[1] - 1 ELSE dt[1]
        era == y \div 400
        yoe == y - era * 400
        mp  == IF dt[2] > 2 THEN dt[2] - 3 ELSE dt[2] + 9
        doy == (153 * mp + 2) \div 5 + dt[3] - 1
        doe == yoe * 365 + yoe \div 4 - yoe \div 100 + doy
    IN era * 146097 + doe - 719468

\* date.weekday(): Monday = 0 ... Sunday = 6
Weekday(dt) == (Ordinal(dt) + 3) % 7

\* date.strftime('%A')
DayName(dt) ==
    <<"Monday", "Tuesday", "Wednesday", "Thursday", "Friday", "Saturday", "Sunday">>[Weekday(dt) + 1]

\* date.replace(year=..., [day=...]) raises ValueError on a day the month lacks
ValidDate(dt) == dt[3] >= 1 /\ dt[3] <= DaysInMonth(dt[1], dt[2])

YearsThreshold == 2

\* is_immune with "day <= immunity_end_date"
is_immune_through_end_date(emp, day) ==
    IF emp.last_ph_date = None THEN FALSE
    ELSE LET l   == emp.last_ph_date
             adv == <<l[1] + YearsThreshold, l[2], l[3]>>
             immunity_end_date == IF ValidDate(adv) THEN adv
                                  ELSE <<l[1] + YearsThreshold, l[2], 28>>
         IN DateLT(day, immunity_end_date) \/ day = immunity_end_date

is_immune(emp, day) ==
    IF emp.last_ph_date = None THEN FALSE
    ELSE LET l   == emp.last_ph_date
             adv == <<l[1] + YearsThreshold, l[2], l[3]>>
             immunity_end_date == IF ValidDate(adv) THEN adv
                                  ELSE <<l[1] + YearsThreshold, l[2], 28>>
         IN DateLT(day, immunity_end_date)

\* can_work without its blackout test
can_work_ignoring_blackouts(emp, day, shift, is_public_holiday) ==
    IF is_public_holiday /\ is_immune(emp, day) THEN FALSE
    ELSE IF is_public_holiday THEN shift \in {"ORG_PH", "TYPE_C_PH", "TYPE_O_PH"}
    ELSE IF Weekday(day) >= 5
         THEN shift \in {"ORG_WEEKEND", "TYPE_C_WEEKEND_AM", "TYPE_C_WEEKEND_PM",
                         "TYPE_O_WEEKEND_AM", "TYPE_O_WEEKEND_PM"}
    ELSE shift \in {"ORG_WEEKDAY_PM", "TYPE_C_WEEKDAY_PM", "TYPE_O_WEEKDAY_PM"}

\* can_work without its immunity test
can_work_ignoring_immunity(emp, day, shift, is_public_holiday) ==
    IF day \in emp.blackouts THEN FALSE
    ELSE IF is_public_holiday THEN shift \in {"ORG_PH", "TYPE_C_PH", "TYPE_O_PH"}
    ELSE IF Weekday(day) >= 5
         THEN shift \in {"ORG_WEEKEND", "TYPE_C_WEEKEND_AM", "TYPE_C_WEEKEND_PM",
                         "TYPE_O_WEEKEND_AM", "TYPE_O_WEEKEND_PM"}
    ELSE shift \in {"ORG_WEEKDAY_PM", "TYPE_C_WEEKDAY_PM", "TYPE_O_WEEKDAY_PM"}

can_work(emp, day, shift, is_public_holiday) ==
    IF day \in emp.blackouts THEN FALSE
    ELSE IF is_public_holiday /\ is_immune(emp, day) THEN FALSE
    ELSE IF is_public_holiday THEN shift \in {"ORG_PH", "TYPE_C_PH", "TYPE_O_PH"}
    ELSE IF Weekday(day) >= 5
         THEN shift \in {"ORG_WEEKEND", "TYPE_C_WEEKEND_AM", "TYPE_C_WEEKEND_PM",
                         "TYPE_O_WEEKEND_AM", "TYPE_O_WEEKEND_PM"}
    ELSE shift \in {"ORG_WEEKDAY_PM", "TYPE_C_WEEKDAY_PM", "TYPE_O_WEEKDAY_PM"}

(***************************************************************************)
(* solver.py: construction                                                 *)
(***************************************************************************)
\* DEFAULT_POINT_VALUES, in hundredths of a point
DEFAULT_POINT_VALUES ==
    [s \in Shift |->
        IF s \in {"ORG_WEEKDAY_PM", "TYPE_C_WEEKDAY_PM", "TYPE_O_WEEKDAY_PM"} THEN 100
        ELSE IF s \in {"ORG_PH", "TYPE_C_PH", "TYPE_O_PH"} THEN 200
        ELSE 150]

\* round(v * 10) for v given in hundredths: Python rounds half to even
RoundTenths(h) ==
    LET q == h \div 10
        r == h % 10
    IN IF r < 5 THEN q
       ELSE IF r > 5 THEN q + 1
       ELSE IF q % 2 = 0 THEN q ELSE q + 1

\* self.point_weights
point_weights == [s \in DOMAIN point_values |-> RoundTenths(point_values[s])]

\* self.point_weights.get(s, 10)
WeightOf(s) == IF s \in DOMAIN point_weights THEN point_weights[s] ELSE 10

EmpIdx == 1..Len(employees)

\* self.teams (as a set; the sort order is not observable)
teams == {employees[i].team : i \in EmpIdx}

\* self.emp_team[name]
emp_team(name) == employees[CHOOSE i \in EmpIdx : employees[i].name = name].team

\* a calendar that emits the Org slot of the day only
get_org_shift_for_day(d) ==
    IF d \in public_holidays THEN <<"ORG_PH">>
    ELSE IF Weekday(d) >= 5 THEN <<"ORG_WEEKEND">>
    ELSE <<"ORG_WEEKDAY_PM">>

\* _get_shifts_for_day
get_shifts_for_day(d) ==
    IF d \in public_holidays THEN <<"ORG_PH", "TYPE_C_PH", "TYPE_O_PH">>
    ELSE IF Weekday(d) >= 5
         THEN <<"ORG_WEEKEND", "TYPE_C_WEEKEND_AM", "TYPE_C_WEEKEND_PM",
                "TYPE_O_WEEKEND_AM", "TYPE_O_WEEKEND_PM">>
    ELSE <<"ORG_WEEKDAY_PM", "TYPE_C_WEEKDAY_PM", "TYPE_O_WEEKDAY_PM">>

\* for d in self.date_range: for s in self._get_shifts_for_day(d): the (d, s)
\* slots in emission order, from horizon index i on
RECURSIVE SlotsFrom(_)
SlotsFrom(i) ==
    IF i > Len(date_range) THEN <<>>
    ELSE LET d  == date_range[i]
             sh == get_shifts_for_day(d)
         IN [j \in 1..Len(sh) |-> <<d, sh[j]>>] \o SlotsFrom(i + 1)

Slots == SlotsFrom(1)

\* the BoolVars of the given employees on slot (d, s)
VarsOn(names, d, s) ==
    {variables[k].var : k \in {j \in 1..Len(variables) :
        /\ variables[j].key[2] = d
        /\ variables[j].key[3] = s
        /\ variables[j].key[1] \in names}}

\* the BoolVars of one employee on date d (over that day's shift list)
DayVars(name, d) ==
    {variables[k].var : k \in {j \in 1..Len(variables) :
        /\ variables[j].key[1] = name
        /\ variables[j].key[2] = d}}

Names == {employees[i].name : i \in EmpIdx}

(***************************************************************************)
(* _create_variables                                                       *)
(***************************************************************************)
\* the team set a shift is open to (solver.py 99-104)
AllowedTeams(s) ==
    LET all_teams   == teams
        type_c_pool == all_teams \cap TYPE_C_TEAMS
        type_o_pool == all_teams \cap TYPE_O_TEAMS
    IN IF category(s) \in {"TYPE_C", "C"} THEN type_c_pool
       ELSE IF category(s) \in {"TYPE_O", "O"} THEN type_o_pool
       ELSE all_teams

\* does (emp, d, s) get a BoolVar
Eligible(emp, d, s) ==
    /\ emp.team \in AllowedTeams(s)
    /\ can_work(emp, d, s, d \in public_holidays)

\* the keys in insertion order: dates, then the day's shifts, then employees
CreatedKeys ==
    LET n   == Len(employees)
        sl  == Slots
        all == [k \in 1..(Len(sl) * n) |->
                  <<employees[((k - 1) % n) + 1].name,
                    sl[((k - 1) \div n) + 1][1],
                    sl[((k - 1) \div n) + 1][2]>>]
        emp(name) == employees[CHOOSE i \in EmpIdx : employees[i].name = name]
    IN SelectSeq(all, LAMBDA key : Eligible(emp(key[1]), key[2], key[3]))

(***************************************************************************)
(* Inputs                                                                  *)
(***************************************************************************)
Jan(d) == <<2026, 1, d>>

Employee(name, team, role, ytd, blackouts, bids, last) ==
    [name |-> name, team |-> team, role |-> role, ytd_points |-> ytd,
     blackouts |-> blackouts, ph_bids |-> bids, last_ph_date |-> last]

\* the people a roster is drawn from
Catalog ==
    << Employee("Ann", "Blue", "Standard",     0,     {},       {},       None),
       Employee("Bob", "Red",  "Standard",     0,     {},       {Jan(1)}, None),
       Employee("Cat", "Blue", "Weekend-Only", 2,     {},       {},       None),
       Employee("Dan", "Red",  "Standard",     1,     {Jan(1)}, {},       None),
       Employee("Eve", "Blue", "Standard",     0,     {},       {Jan(1)}, <<2024, 2, 29>>),
       Employee("Fay", "Red",  "Weekend-Only", 10000, {},       {},       None),
       Employee("Gus", "Red",  "Standard",     0,     {Jan(2)}, {},       <<2023, 12, 25>>) >>

CatalogNames == {Catalog[i].name : i \in 1..Len(Catalog)}

Rosters ==
    {SelectSeq(Catalog, LAMBDA e : e.name \in S) :
        S \in {T \in SUBSET CatalogNames : Cardinality(T) >= 1 /\ Cardinality(T) <= MaxEmp}}

\* get_date_list(start, end): consecutive dates (app.py 62-65)
Horizon(first, n) == [i \in 1..n |-> Jan(first + i - 1)]

FirstDays == {1, 3}          \* Thu 1 Jan 2026 (Fri 2 Jan follows), Sat 3 Jan

\* the empty horizon is what get_date_list returns when start_date > end_date
Horizons == {Horizon(f, n) : f \in FirstDays, n \in 0..MaxDays}

\* the solver reads public_holidays only through "d in public_holidays" for the
\* dates d of the horizon, so the holiday sets are drawn inside the horizon
HolidayDates == {Jan(1)}

HolidaySets(range) == SUBSET (HolidayDates \cap {range[i] : i \in 1..Len(range)})

RoleCapTables == { <<>>, [r \in {"Standard", "Weekend-Only"} |-> IF r = "Standard" THEN 1 ELSE 0] }

\* no function outside solve() is being called
NoCall == [fn |-> "none"]

\* solve() has not returned
NoResult == [has_frames |-> FALSE, roster |-> <<>>, summary |-> <<>>, diagnostics |-> <<>>]

Init ==
    /\ employees \in Rosters
    /\ date_range \in Horizons
    /\ public_holidays \in HolidaySets(date_range)
    /\ point_values = DEFAULT_POINT_VALUES
    /\ role_max_shifts \in RoleCapTables
    /\ variables = <<>>
    /\ model_vars = 0
    /\ constraints = {}
    /\ employee_totals = <<>>
    /\ errors = <<>>
    /\ status = "NOT_RUN"
    /\ solution = {}
    /\ result = NoResult
    /\ pc = "start"
    /\ returned = <<>>
    /\ call = NoCall

(***************************************************************************)
(* The constraint builders.  A constraint is sum(vs) op rhs over BoolVars.  *)
(***************************************************************************)
Con(kind, vs, op, rhs) == [kind |-> kind, vs |-> vs, op |-> op, rhs |-> rhs]

\* the loop stops one slot early: the last slot of the horizon gets no constraint
CoverageSkipsLastSlot ==
    LET sl == Slots
    IN {Con("coverage", VarsOn(Names, sl[k][1], sl[k][2]), "eq", 1) :
           k \in {j \in 1..(Len(sl) - 1) : VarsOn(Names, sl[j][1], sl[j][2]) # {}}}

\* _add_coverage_constraints: the constraints
CoverageConstraints ==
    LET sl == Slots
    IN {Con("coverage", VarsOn(Names, sl[k][1], sl[k][2]), "eq", 1) :
           k \in {j \in 1..Len(sl) : VarsOn(Names, sl[j][1], sl[j][2]) # {}}}

\* the line appended to self.errors for a slot without variables
CannotFill(d, s) == [kind |-> "cannot_fill", date |-> d, shift |-> ShiftValue(s)]

\* _add_coverage_constraints: the lines appended to self.errors
CoverageErrors ==
    LET sl   == Slots
        bare == SelectSeq(sl, LAMBDA x : VarsOn(Names, x[1], x[2]) = {})
    IN [k \in 1..Len(bare) |-> CannotFill(bare[k][1], bare[k][2])]

\* the category _add_team_rotation_constraints reads off the member name
RotationCat(s) ==
    IF s \in {"ORG_WEEKDAY_PM", "ORG_WEEKEND", "ORG_PH"} THEN "ORG"
    ELSE IF s \in {"TYPE_C_WEEKDAY_PM", "TYPE_C_WEEKEND_AM", "TYPE_C_WEEKEND_PM", "TYPE_C_PH"}
         THEN "TYPE_C"
    ELSE "TYPE_O"

\* cat_shifts[cat]
CatSlots(cat) == SelectSeq(Slots, LAMBDA x : RotationCat(x[2]) = cat)

TeamMembers(t) == {employees[i].name : i \in {j \in EmpIdx : employees[j].team = t}}

\* rotation applied between dates only: slots of one date are not paired
RotationAcrossDatesOnly ==
    UNION {
        LET slots == CatSlots(cat)
        IN {Con("rotation",
                VarsOn(TeamMembers(x[2]), slots[x[1]][1], slots[x[1]][2])
                  \cup VarsOn(TeamMembers(x[2]), slots[x[1] + 1][1], slots[x[1] + 1][2]),
                "le", 1) :
              x \in {y \in (1..(Len(slots) - 1)) \X teams :
                       /\ slots[y[1]][1] # slots[y[1] + 1][1]
                       /\ VarsOn(TeamMembers(y[2]), slots[y[1]][1], slots[y[1]][2]) # {}
                       /\ VarsOn(TeamMembers(y[2]), slots[y[1] + 1][1], slots[y[1] + 1][2]) # {}}}
        : cat \in {"ORG", "TYPE_C", "TYPE_O"}}

\* _add_team_rotation_constraints
RotationConstraints ==
    UNION {
        LET slots == CatSlots(cat)
        IN {Con("rotation",
                VarsOn(TeamMembers(x[2]), slots[x[1]][1], slots[x[1]][2])
                  \cup VarsOn(TeamMembers(x[2]), slots[x[1] + 1][1], slots[x[1] + 1][2]),
                "le", 1) :
              x \in {y \in (1..(Len(slots) - 1)) \X teams :
                       /\ VarsOn(TeamMembers(y[2]), slots[y[1]][1], slots[y[1]][2]) # {}
                       /\ VarsOn(TeamMembers(y[2]), slots[y[1] + 1][1], slots[y[1] + 1][2]) # {}}}
        : cat \in {"ORG", "TYPE_C", "TYPE_O"}}

\* the per-day constraint added only when the employee has more than 3
\* variables on the day
OneShiftPerDayAboveThree ==
    {Con("one_per_day", DayVars(x[1], date_range[x[2]]), "le", 1) :
        x \in {y \in Names \X (1..Len(date_range)) :
                 Cardinality(DayVars(y[1], date_range[y[2]])) > 3}}

\* _add_one_shift_per_day
OneShiftPerDayConstraints ==
    {Con("one_per_day", DayVars(x[1], date_range[x[2]]), "le", 1) :
        x \in {y \in Names \X (1..Len(date_range)) :
                 Cardinality(DayVars(y[1], date_range[y[2]])) > 1}}

\* the rest constraint skipped for the first employee of the list
RestSkipsFirstEmployee ==
    {Con("rest", DayVars(x[1], date_range[x[2]]) \cup DayVars(x[1], date_range[x[2] + 1]), "le", 1) :
        x \in {y \in {employees[i].name : i \in 2..Len(employees)} \X (1..(Len(date_range) - 1)) :
                 /\ DayVars(y[1], date_range[y[2]]) # {}
                 /\ DayVars(y[1], date_range[y[2] + 1]) # {}}}

\* _add_rest_constraints
RestConstraints ==
    {Con("rest", DayVars(x[1], date_range[x[2]]) \cup DayVars(x[1], date_range[x[2] + 1]), "le", 1) :
        x \in {y \in Names \X (1..(Len(date_range) - 1)) :
                 /\ DayVars(y[1], date_range[y[2]]) # {}
                 /\ DayVars(y[1], date_range[y[2] + 1]) # {}}}

\* the employees with d in emp.ph_bids
Bidders(d) == {employees[i].name : i \in {j \in EmpIdx : d \in employees[j].ph_bids}}

\* bidding that lets at most one bidder, instead of exactly one, take Org PH
PhBiddingAtMostOne ==
    {Con("ph_bid", VarsOn(Bidders(date_range[i]), date_range[i], "ORG_PH"), "le", 1) :
        i \in {j \in 1..Len(date_range) :
                 /\ date_range[j] \in public_holidays
                 /\ VarsOn(Bidders(date_range[j]), date_range[j], "ORG_PH") # {}}}

\* _add_ph_bidding_constraints
PhBiddingConstraints ==
    {Con("ph_bid", VarsOn(Bidders(date_range[i]), date_range[i], "ORG_PH"), "eq", 1) :
        i \in {j \in 1..Len(date_range) :
                 /\ date_range[j] \in public_holidays
                 /\ VarsOn(Bidders(date_range[j]), date_range[j], "ORG_PH") # {}}}

\* all the BoolVars of one employee
EmpVars(name) ==
    {variables[k].var : k \in {j \in 1..Len(variables) : variables[j].key[1] = name}}

\* a cap test by truthiness ("if not max_s: continue"), which skips a cap of 0
RoleCapSkipsZero ==
    {Con("role_max", EmpVars(employees[i].name), "le", role_max_shifts[employees[i].role]) :
        i \in {j \in EmpIdx :
                 /\ employees[j].role \in DOMAIN role_max_shifts
                 /\ role_max_shifts[employees[j].role] # 0
                 /\ EmpVars(employees[j].name) # {}}}

\* _add_role_max_shift_constraints
RoleMaxShiftConstraints ==
    {Con("role_max", EmpVars(employees[i].name), "le", role_max_shifts[employees[i].role]) :
        i \in {j \in EmpIdx :
                 /\ employees[j].role \in DOMAIN role_max_shifts
                 /\ EmpVars(employees[j].name) # {}}}

\* _set_fairness_objective: employee_totals, one linear expression per employee
FairnessTotals ==
    [i \in EmpIdx |->
        LET mine == SelectSeq(variables, LAMBDA v : v.key[1] = employees[i].name)
        IN [base  |-> employees[i].ytd_points * 10,
            terms |-> [k \in 1..Len(mine) |-> [var |-> mine[k].var, w |-> WeightOf(mine[k].key[3])]]]]

\* the domain of max_pts and min_pts: NewIntVar(0, 100000, ...)
ObjLo == 0
ObjHi == 100000

(***************************************************************************)
(* The search (cp_model.CpSolver().Solve), by what it is specified to do:   *)
(* an assignment is the set of BoolVars with value 1.                       *)
(***************************************************************************)
Sat(c, A) ==
    IF c.op = "eq" THEN Cardinality(c.vs \cap A) = c.rhs
    ELSE Cardinality(c.vs \cap A) <= c.rhs

\* some constraint among hi has more BoolVars set in A than its right-hand side
TooMany(hi, A) == \E c \in hi : Cardinality(c.vs \cap A) > c.rhs

\* some equality among lo, all of whose BoolVars are decided, has too few set
TooFew(lo, A) == \E c \in lo : Cardinality(c.vs \cap A) < c.rhs

\* every assignment of BoolVars v..n that extends A and satisfies the
\* constraints; hi[v] holds the constraints that mention v, lo[v] the
\* equalities whose highest BoolVar is v
RECURSIVE Extend(_, _, _, _, _)
Extend(hi, lo, n, v, A) ==
    IF v > n THEN {A}
    ELSE (IF TooMany(hi[v], A \cup {v}) \/ TooFew(lo[v], A \cup {v}) THEN {}
          ELSE Extend(hi, lo, n, v + 1, A \cup {v}))
         \cup
         (IF TooFew(lo[v], A) THEN {} ELSE Extend(hi, lo, n, v + 1, A))

\* the assignments of BoolVars 1..n that satisfy every linear constraint
Solutions(cons, n) ==
    IF \E c \in cons : c.vs = {} /\ ~Sat(c, {}) THEN {}
    ELSE Extend([v \in 1..n |-> {c \in cons : v \in c.vs}],
                [v \in 1..n |-> {c \in cons : c.op = "eq" /\ v \in c.vs /\ \A u \in c.vs : u <= v}],
                n, 1, {})

RECURSIVE SumTerms(_, _, _)
SumTerms(terms, k, A) ==
    IF k > Len(terms) THEN 0
    ELSE (IF terms[k].var \in A THEN terms[k].w ELSE 0) + SumTerms(terms, k + 1, A)

\* the value of one employee's total expression under assignment A
Total(t, A) == t.base + SumTerms(t.terms, 1, A)

MaxOf(S) == CHOOSE x \in S : \A y \in S : y <= x
MinOf(S) == CHOOSE x \in S : \A y \in S : x <= y

\* the totals of every "max_pts >= total" and "min_pts <= total" in the model
TotalsUnder(A) == {Total(employee_totals[i], A) : i \in 1..Len(employee_totals)}

\* the totals of the max_pts and min_pts of the current solve() call, the
\* ones the objective of the model reads
CurrentTotalsUnder(A) ==
    {Total(employee_totals[i], A) :
        i \in (Len(employee_totals) - Len(employees) + 1)..Len(employee_totals)}

\* max_pts >= total and min_pts <= total for every employee have a solution
\* inside the variables' domain
ObjectiveFits(A) ==
    \A x \in TotalsUnder(A) : x <= ObjHi /\ x >= ObjLo

\* an objective that minimises max_pts alone
ObjectiveMaxOnly(A) ==
    IF employee_totals = <<>> THEN 0
    ELSE MaxOf(CurrentTotalsUnder(A))

\* the least value of max_pts - min_pts under assignment A
Objective(A) ==
    IF employee_totals = <<>> THEN 0
    ELSE LET ts == CurrentTotalsUnder(A) IN MaxOf(ts) - MinOf(ts)

\* the feasible assignments of the whole model
Feasible == {A \in Solutions(constraints, model_vars) : ObjectiveFits(A)}

\* the assignments of F with the least objective value
Optimal(F) ==
    IF F = {} THEN {}
    ELSE LET best == MinOf({Objective(B) : B \in F})
         IN {A \in F : Objective(A) = best}

(***************************************************************************)
(* solve()                                                                 *)
(***************************************************************************)
\* self._create_variables()
CreateVariables ==
    /\ pc = "start"
    /\ LET keys == CreatedKeys
       IN /\ variables' = [k \in 1..Len(keys) |-> [key |-> keys[k], var |-> model_vars + k]]
          /\ model_vars' = model_vars + Len(keys)
    /\ pc' = "variables"
    /\ UNCHANGED <<inputs, returned, call, constraints, employee_totals, errors, status, solution, result>>

\* self._add_coverage_constraints()
AddCoverage ==
    /\ pc = "variables"
    /\ constraints' = constraints \cup CoverageConstraints
    /\ errors' = errors \o CoverageErrors
    /\ pc' = "coverage"
    /\ UNCHANGED <<inputs, returned, call, variables, model_vars, employee_totals, status, solution, result>>

\* if self.errors: return None, None, self.errors
ReturnSetupFailure ==
    /\ pc = "coverage"
    /\ errors # <<>>
    /\ result' = [has_frames |-> FALSE, roster |-> <<>>, summary |-> <<>>, diagnostics |-> errors]
    /\ pc' = "done"
    /\ UNCHANGED <<inputs, returned, call, variables, model_vars, constraints, employee_totals, errors, status, solution>>

\* the five remaining builders and _set_fairness_objective
AssembleModel ==
    /\ pc = "coverage"
    /\ errors = <<>>
    /\ constraints' = constraints \cup RotationConstraints \cup OneShiftPerDayConstraints
                        \cup RestConstraints \cup PhBiddingConstraints
                        \cup RoleMaxShiftConstraints
    /\ employee_totals' = employee_totals \o FairnessTotals
    /\ pc' = "model"
    /\ UNCHANGED <<inputs, returned, call, variables, model_vars, errors, status, solution, result>>

\* status = solver.Solve(self.model): proven optimal
SolveOptimal ==
    /\ pc = "model"
    /\ \E A \in Optimal(Feasible) :
          /\ status' = "OPTIMAL"
          /\ solution' = A
    /\ pc' = "searched"
    /\ UNCHANGED <<inputs, returned, call, variables, model_vars, constraints, employee_totals, errors, result>>

\* the time budget ran out with a solution in hand
SolveFeasible ==
    /\ pc = "model"
    /\ \E A \in Feasible :
          /\ status' = "FEASIBLE"
          /\ solution' = A
    /\ pc' = "searched"
    /\ UNCHANGED <<inputs, returned, call, variables, model_vars, constraints, employee_totals, errors, result>>

\* proven infeasible
SolveInfeasible ==
    /\ pc = "model"
    /\ Feasible = {}
    /\ status' = "INFEASIBLE"
    /\ solution' = {}
    /\ pc' = "searched"
    /\ UNCHANGED <<inputs, returned, call, variables, model_vars, constraints, employee_totals, errors, result>>

\* the time budget ran out before any solution or proof was found
SolveUnknown ==
    /\ pc = "model"
    /\ status' = "UNKNOWN"
    /\ solution' = {}
    /\ pc' = "searched"
    /\ UNCHANGED <<inputs, returned, call, variables, model_vars, constraints, employee_totals, errors, result>>

\* solver.Value(var) == 1
Value(var) == var \in solution

\* roster_results (solver.py 241-251)
RosterResults ==
    LET chosen == SelectSeq(variables, LAMBDA v : Value(v.var))
    IN [k \in 1..Len(chosen) |->
          [Date     |-> chosen[k].key[2],
           Day      |-> DayName(chosen[k].key[2]),
           Employee |-> chosen[k].key[1],
           Team     |-> emp_team(chosen[k].key[1]),
           Category |-> category(chosen[k].key[3]),
           Shift    |-> ShiftValue(chosen[k].key[3])]]

RECURSIVE NewPointsOfAll(_, _)
\* new_points without the "name == emp.name" test
NewPointsOfAll(name, k) ==
    IF k > Len(variables) THEN 0
    ELSE (IF Value(variables[k].var)
          THEN WeightOf(variables[k].key[3]) ELSE 0) + NewPointsOfAll(name, k + 1)

RECURSIVE NewPoints(_, _)
\* new_points of one employee, summed over self.variables from index k on
NewPoints(name, k) ==
    IF k > Len(variables) THEN 0
    ELSE (IF variables[k].key[1] = name /\ Value(variables[k].var)
          THEN WeightOf(variables[k].key[3]) ELSE 0) + NewPoints(name, k + 1)

\* summary_results (solver.py 253-266), points in tenths
SummaryResults ==
    [i \in EmpIdx |->
        [Employee       |-> employees[i].name,
         Team           |-> employees[i].team,
         StartingPoints |-> employees[i].ytd_points * 10,
         PointsEarned   |-> NewPoints(employees[i].name, 1),
         TotalPoints    |-> employees[i].ytd_points * 10 + NewPoints(employees[i].name, 1)]]

\* if status in (OPTIMAL, FEASIBLE): return roster, summary, []
ReturnSuccess ==
    /\ pc = "searched"
    /\ status \in {"OPTIMAL", "FEASIBLE"}
    /\ result' = [has_frames |-> TRUE, roster |-> RosterResults, summary |-> SummaryResults,
                  diagnostics |-> <<>>]
    /\ pc' = "done"
    /\ UNCHANGED <<inputs, returned, call, variables, model_vars, constraints, employee_totals, errors, status, solution>>

LogicConflict == [kind |-> "logic_conflict", date |-> None, shift |-> ""]

\* a search failure that returns self.errors, as the setup failure does
ReturnSearchFailureWithErrors ==
    /\ pc = "searched"
    /\ status \notin {"OPTIMAL", "FEASIBLE"}
    /\ result' = [has_frames |-> FALSE, roster |-> <<>>, summary |-> <<>>, diagnostics |-> errors]
    /\ pc' = "done"
    /\ UNCHANGED <<inputs, returned, call, variables, model_vars, constraints, employee_totals, errors, status, solution>>

\* return None, None, ["Logic Conflict: ..."]
ReturnSearchFailure ==
    /\ pc = "searched"
    /\ status \notin {"OPTIMAL", "FEASIBLE"}
    /\ result' = [has_frames |-> FALSE, roster |-> <<>>, summary |-> <<>>,
                  diagnostics |-> <<LogicConflict>>]
    /\ pc' = "done"
    /\ UNCHANGED <<inputs, returned, call, variables, model_vars, constraints, employee_totals, errors, status, solution>>

Next ==
    \/ CreateVariables
    \/ AddCoverage
    \/ ReturnSetupFailure
    \/ AssembleModel
    \/ SolveOptimal
    \/ SolveFeasible
    \/ SolveInfeasible
    \/ SolveUnknown
    \/ ReturnSuccess
    \/ ReturnSearchFailure

Spec == Init /\ [][Next]_vars

(***************************************************************************)
(* A horizon with two public holidays.  The rest constraint keeps everyone  *)
(* off two adjacent dates, so the holidays are the first and the third day. *)
(***************************************************************************)
InitTwoHolidays ==
    /\ employees \in Rosters
    /\ date_range = Horizon(1, TwoHolidayDays)
    /\ public_holidays \in {H \in SUBSET {date_range[1], date_range[TwoHolidayDays]} : H # {}}
    /\ point_values = DEFAULT_POINT_VALUES
    /\ role_max_shifts \in RoleCapTables
    /\ variables = <<>>
    /\ model_vars = 0
    /\ constraints = {}
    /\ employee_totals = <<>>
    /\ errors = <<>>
    /\ status = "NOT_RUN"
    /\ solution = {}
    /\ result = NoResult
    /\ pc = "start"
    /\ returned = <<>>
    /\ call = NoCall

SpecTwoHolidays == InitTwoHolidays /\ [][Next]_vars

(***************************************************************************)
(* Employee.is_immune called on its own: the arguments are drawn around the *)
(* end of the immunity window.                                             *)
(***************************************************************************)
\* no RosterSolver object exists
NoSolver ==
    /\ employees = <<>>
    /\ date_range = <<>>
    /\ public_holidays = {}
    /\ point_values = DEFAULT_POINT_VALUES
    /\ role_max_shifts = <<>>
    /\ variables = <<>>
    /\ model_vars = 0
    /\ constraints = {}
    /\ employee_totals = <<>>
    /\ errors = <<>>
    /\ status = "NOT_RUN"
    /\ solution = {}
    /\ result = NoResult
    /\ pc = "outside"
    /\ returned = <<>>

solver_state == <<inputs, variables, model_vars, constraints, employee_totals, errors,
                  status, solution, result, pc, returned>>

LastDuties ==
    { None, <<2023, 12, 25>>, <<2023, 12, 31>>, <<2024, 1, 1>>, <<2024, 1, 2>>,
      <<2024, 2, 28>>, <<2024, 2, 29>>, <<2024, 3, 1>>, <<2020, 2, 29>>, <<2022, 3, 31>> }

Days ==
    { <<2022, 2, 27>>, <<2022, 2, 28>>, <<2022, 3, 1>>, <<2024, 3, 30>>, <<2024, 3, 31>>,
      <<2025, 12, 24>>, <<2025, 12, 25>>, <<2025, 12, 30>>, <<2025, 12, 31>>,
      <<2026, 1, 1>>, <<2026, 1, 2>>, <<2026, 2, 27>>, <<2026, 2, 28>>, <<2026, 3, 1>> }

InitIsImmune ==
    /\ NoSolver
    /\ \E l \in LastDuties, day \in Days :
          call = [fn |-> "is_immune", emp |-> Employee("Eve", "Blue", "Standard", 0, {}, {}, l),
                  day |-> day, done |-> FALSE, ret |-> FALSE]

\* emp.is_immune(day)
CallIsImmune ==
    /\ call.fn = "is_immune"
    /\ ~call.done
    /\ call' = [call EXCEPT !.done = TRUE, !.ret = is_immune(call.emp, call.day)]
    /\ UNCHANGED solver_state

SpecIsImmune == InitIsImmune /\ [][CallIsImmune]_vars

(***************************************************************************)
(* io_handler.py: load_employees.  A cell of the Employees sheet is text (a *)
(* sequence of characters), or is empty, which pandas reads as NaN, or      *)
(* holds None.  The sheets modelled have a Name column, with or without a   *)
(* Team column, and no other column.                                       *)
(***************************************************************************)
Text(chars) == [kind |-> "str", chars |-> chars]
NaN         == [kind |-> "nan", chars |-> <<>>]
NoneCell    == [kind |-> "none", chars |-> <<>>]

\* pd.isna(cell)
isna(cell) == cell.kind \in {"nan", "none"}

\* str(cell)
str(cell) ==
    CASE cell.kind = "str"  -> cell.chars
      [] cell.kind = "nan"  -> <<"n", "a", "n">>
      [] cell.kind = "none" -> <<"N", "o", "n", "e">>

RECURSIVE lstrip(_)
lstrip(s) == IF s # <<>> /\ Head(s) = " " THEN lstrip(Tail(s)) ELSE s

RECURSIVE rstrip(_)
rstrip(s) == IF s # <<>> /\ s[Len(s)] = " " THEN rstrip(SubSeq(s, 1, Len(s) - 1)) ELSE s

\* s.strip()
strip(s) == rstrip(lstrip(s))

\* row.get(col, default)
get(row, col, default) == IF col \in DOMAIN row THEN row[col] ELSE default

\* the row passes "Name is missing" and "No team": the two continue statements
RowKept(row) ==
    LET name_raw == get(row, "Name", NoneCell)
        team     == strip(str(get(row, "Team", Text(<<>>))))
    IN /\ ~(isna(name_raw) \/ strip(str(name_raw)) = <<>>)
       /\ team # <<>>

\* the Employee appended for a kept row: Role, YTD, blackout, bid and last-duty
\* columns are absent, so their defaults apply
RowEmployee(row) ==
    Employee(strip(str(get(row, "Name", NoneCell))), strip(str(get(row, "Team", Text(<<>>)))),
             "Standard", 0, {}, {}, None)

load_employees(sheet) ==
    LET kept == SelectSeq(sheet, RowKept)
    IN [k \in 1..Len(kept) |-> RowEmployee(kept[k])]

NameCells == { Text(<<"A", "n", "n">>), Text(<<" ", "B", "o", "b", " ">>), Text(<<" ">>), NaN }

TeamCells == { Text(<<"B", "l", "u", "e">>), Text(<<" ", "R", "e", "d", " ">>), Text(<<" ">>),
               Text(<<>>), NaN, NoneCell }

Rows == [Name : NameCells] \cup [Name : NameCells, Team : TeamCells]

\* every row of a sheet has the sheet's columns
Sheets ==
    UNION {[1..n -> Rows] : n \in 0..MaxRows} \ 
        {sh \in UNION {[1..n -> Rows] : n \in 0..MaxRows} :
            \E i, j \in DOMAIN sh : DOMAIN sh[i] # DOMAIN sh[j]}

InitLoadEmployees ==
    /\ NoSolver
    /\ \E sh \in Sheets :
          call = [fn |-> "load_employees", sheet |-> sh, done |-> FALSE, ret |-> <<>>]

\* load_employees(xls)
CallLoadEmployees ==
    /\ call.fn = "load_employees"
    /\ ~call.done
    /\ call' = [call EXCEPT !.done = TRUE, !.ret = load_employees(call.sheet)]
    /\ UNCHANGED solver_state

SpecLoadEmployees == InitLoadEmployees /\ [][CallLoadEmployees]_vars

(***************************************************************************)
(* solve() called again on the same object.  __init__ is the only place     *)
(* that creates self.model, self.variables and self.errors; solve() resets  *)
(* none of them.  The inputs are unchanged between the calls, so the keys   *)
(* _create_variables writes are the keys self.variables already holds: each *)
(* entry is overwritten, in place, by a new BoolVar of the same model.      *)
(***************************************************************************)
SolveAgain ==
    /\ pc = "done"
    /\ Len(returned) + 1 < MaxCalls
    /\ returned' = Append(returned, result)
    /\ result' = NoResult
    /\ status' = "NOT_RUN"
    /\ solution' = {}
    /\ pc' = "start"
    /\ UNCHANGED <<inputs, call, variables, model_vars, constraints, employee_totals, errors>>

InitReuse ==
    /\ Init
    /\ Len(employees) <= MaxEmpReuse
    /\ Len(date_range) = 1

NextReuse == Next \/ SolveAgain

SpecReuse == InitReuse /\ [][NextReuse]_vars

(***************************************************************************)
(* Properties                                                              *)
(***************************************************************************)
Done == pc = "done"

\* solve() returned a roster and a summary
Success == Done /\ result.has_frames

RosterIdx == 1..Len(result.roster)

\* the roster records of slot (d, s)
RecordsOf(d, s) ==
    {j \in RosterIdx : result.roster[j].Date = d /\ result.roster[j].Shift = ShiftValue(s)}

\* the roster records of date d
RecordsOn(d) == {j \in RosterIdx : result.roster[j].Date = d}

\* the number of slots the calendar gives a date
CalendarSlots(d) ==
    IF d \in public_holidays THEN 3 ELSE IF Weekday(d) >= 5 THEN 5 ELSE 3

EmployeeNamed(name) == employees[CHOOSE i \in EmpIdx : employees[i].name = name]

\* C1: in every successful result each (date, shift) slot of the horizon's
\* calendar (3 slots on a weekday, 5 on a weekend day, 3 on a public holiday)
\* has exactly one roster record, and the roster has no other record.
C1_Coverage ==
    Success =>
        /\ \A k \in 1..Len(Slots) : Cardinality(RecordsOf(Slots[k][1], Slots[k][2])) = 1
        /\ \A i \in 1..Len(date_range) :
              Cardinality(RecordsOn(date_range[i])) = CalendarSlots(date_range[i])
        /\ Len(result.roster) = Len(Slots)

\* a successful roster of a weekend day (5 slots), where slots had several
\* candidates
C1_Witness ==
    /\ Success
    /\ \E i \in 1..Len(date_range) :
          Weekday(date_range[i]) >= 5 /\ date_range[i] \notin public_holidays
    /\ Len(variables) > Len(Slots)

\* C2: a decision variable, and a roster record, of a Type C shift exists only
\* for an employee of a Type C team, and of a Type O shift only for an
\* employee of a Type O team.
C2_TeamGate ==
    /\ \A k \in 1..Len(variables) :
          LET team == EmployeeNamed(variables[k].key[1]).team
              s    == variables[k].key[3]
          IN /\ is_type_c(s) => team \in TYPE_C_TEAMS
             /\ is_type_o(s) => team \in TYPE_O_TEAMS
    /\ Success =>
          \A j \in RosterIdx :
             /\ result.roster[j].Category = "Type C" => result.roster[j].Team \in TYPE_C_TEAMS
             /\ result.roster[j].Category = "Type O" => result.roster[j].Team \in TYPE_O_TEAMS

\* C7: in every successful result no employee has two records on one date.
C7_NoDoubleBooking ==
    Success =>
        \A j, k \in RosterIdx :
            (j # k /\ result.roster[j].Employee = result.roster[k].Employee)
                => result.roster[j].Date # result.roster[k].Date

\* a successful roster of a one-day horizon (no rest constraint applies) in
\* which an employee had variables for several slots of the day
C7_Witness ==
    /\ Success
    /\ Len(date_range) = 1
    /\ \E i \in EmpIdx : Cardinality(DayVars(employees[i].name, date_range[1])) > 1

\* does the employee have a roster record on date d
WorksOn(name, d) == \E j \in RosterIdx : result.roster[j].Employee = name /\ result.roster[j].Date = d

\* C8: in every successful result no employee has records on two dates that
\* are adjacent in the horizon.
C8_Rest ==
    Success =>
        \A i \in 1..(Len(date_range) - 1) : \A name \in Names :
            ~(WorksOn(name, date_range[i]) /\ WorksOn(name, date_range[i + 1]))

\* a successful roster of a two-day horizon in which an employee who works
\* had variables on both days
C8_Witness ==
    /\ Success
    /\ Len(date_range) >= 2
    /\ \E name \in Names :
          /\ DayVars(name, date_range[1]) # {}
          /\ DayVars(name, date_range[2]) # {}
          /\ WorksOn(name, date_range[1]) \/ WorksOn(name, date_range[2])

\* the team of the employee the roster gives slot (d, s)
TeamOn(d, s) == result.roster[CHOOSE j \in RosterIdx : j \in RecordsOf(d, s)].Team

\* C9: in every successful result, within each shift category, the employees
\* of two slots consecutive in the category's emission order (horizon order,
\* then the day's slot order) belong to different teams.
C9_Rotation ==
    Success =>
        \A cat \in {"ORG", "TYPE_C", "TYPE_O"} :
            LET slots == CatSlots(cat)
            IN \A i \in 1..(Len(slots) - 1) :
                  TeamOn(slots[i][1], slots[i][2]) # TeamOn(slots[i + 1][1], slots[i + 1][2])

\* a successful roster where a team had candidates on both of two slots that
\* are consecutive in a category: the AM and PM slots of a weekend day
C9_Witness ==
    /\ Success
    /\ \E i \in 1..Len(date_range) : \E t \in teams :
          /\ Weekday(date_range[i]) >= 5
          /\ date_range[i] \notin public_holidays
          /\ VarsOn(TeamMembers(t), date_range[i], "TYPE_C_WEEKEND_AM") # {}
          /\ VarsOn(TeamMembers(t), date_range[i], "TYPE_C_WEEKEND_PM") # {}

\* C10: no decision variable exists for an employee on a date of the
\* employee's blackout set, and no successful roster assigns one.
C10_Blackout ==
    /\ \A k \in 1..Len(variables) :
          variables[k].key[2] \notin EmployeeNamed(variables[k].key[1]).blackouts
    /\ Success =>
          \A j \in RosterIdx :
             result.roster[j].Date \notin EmployeeNamed(result.roster[j].Employee).blackouts

\* a successful roster over a date on which a roster member is blacked out
C10_Witness ==
    /\ Success
    /\ \E i \in EmpIdx : \E k \in 1..Len(date_range) : date_range[k] \in employees[i].blackouts

\* the structural eligibility checks as the design states them: the team gate
\* of the shift's category, the blackout set and the holiday immunity
PassesStructuralChecks(emp, d, s) ==
    /\ is_type_c(s) => emp.team \in TYPE_C_TEAMS
    /\ is_type_o(s) => emp.team \in TYPE_O_TEAMS
    /\ d \notin emp.blackouts
    /\ ~(d \in public_holidays /\ is_immune(emp, d))

\* the slots no roster member passes the structural checks for, in slot order
UnfillableSlots ==
    SelectSeq(Slots, LAMBDA x : \A i \in EmpIdx : ~PassesStructuralChecks(employees[i], x[1], x[2]))

\* C3: if some slot of the horizon has no employee passing the structural
\* eligibility checks, solve returns no roster and no summary, the diagnostics
\* are exactly one line per unfillable slot, in slot order, each naming the
\* slot's date and shift, and the search is never invoked.
C3_SetupFailFast ==
    (Done /\ UnfillableSlots # <<>>) =>
        /\ ~result.has_frames
        /\ result.diagnostics =
              [k \in 1..Len(UnfillableSlots) |-> CannotFill(UnfillableSlots[k][1], UnfillableSlots[k][2])]
        /\ status = "NOT_RUN"

\* C4: when every slot has a candidate variable, solve returns Failure only
\* when no assignment satisfies the coverage, one-shift-per-day, rest,
\* rotation, bid-priority and role-cap constraints; whenever one exists,
\* solve returns Success.
C4_FailureOnlyWhenInfeasible ==
    (Done /\ errors = <<>> /\ ~result.has_frames) => Solutions(constraints, model_vars) = {}

\* the (name, date, shift) key of a BoolVar of the current variable space
KeyOfVar(v) == variables[v - (model_vars - Len(variables))].key

RECURSIVE PointsIn(_, _)
\* the weights of the shifts of name among the BoolVars S (tenths)
PointsIn(name, S) ==
    IF S = {} THEN 0
    ELSE LET v == CHOOSE u \in S : TRUE
         IN (IF KeyOfVar(v)[1] = name THEN WeightOf(KeyOfVar(v)[3]) ELSE 0)
              + PointsIn(name, S \ {v})

\* total points of every employee under assignment A: starting + earned
TotalPointsUnder(A) ==
    {employees[i].ytd_points * 10 + PointsIn(employees[i].name, A) : i \in EmpIdx}

\* max total - min total under assignment A
SpreadUnder(A) == LET ts == TotalPointsUnder(A) IN MaxOf(ts) - MinOf(ts)

\* max Total Points - min Total Points of the returned summary
SummarySpread ==
    LET totals == {result.summary[i].TotalPoints : i \in 1..Len(result.summary)}
    IN MaxOf(totals) - MinOf(totals)

TwoByTwo ==
    /\ Len(employees) = 2
    /\ Len(date_range) = 2
    /\ Ordinal(date_range[2]) = Ordinal(date_range[1]) + 1
    /\ \A i \in 1..2 : Weekday(date_range[i]) < 5 /\ date_range[i] \notin public_holidays

\* C6 as stated: for 2 employees and 2 consecutive non-holiday weekdays solve
\* succeeds with exactly 2 records, one Org Weekday PM per day, given to
\* different employees.
C6_TwoAssignments ==
    (Done /\ TwoByTwo) =>
        /\ result.has_frames
        /\ Len(result.roster) = 2
        /\ \A j \in RosterIdx : result.roster[j].Shift = "Org Weekday PM"
        /\ \A i \in 1..2 : Cardinality(RecordsOn(date_range[i])) = 1
        /\ \A j, k \in RosterIdx : j # k => result.roster[j].Employee # result.roster[k].Employee

\* C6, amended: for 2 employees and 2 consecutive non-holiday weekdays solve
\* never succeeds: each weekday has three slots (Org, Type C, Type O) and two
\* employees at one shift per day cannot cover them, so solve returns no
\* roster and a non-empty diagnostics list.
C6_TwoEmployeesFail ==
    (Done /\ TwoByTwo) => (~result.has_frames /\ result.diagnostics # <<>>)

\* the two-by-two scenario with variables for both employees on both days,
\* run through the search and found infeasible
C6_Witness ==
    /\ Done
    /\ TwoByTwo
    /\ status = "INFEASIBLE"
    /\ \A i \in EmpIdx : \A k \in 1..2 : DayVars(employees[i].name, date_range[k]) # {}
    /\ result.diagnostics = <<LogicConflict>>

\* the roster records of one employee
RecordsFor(name) == {j \in RosterIdx : result.roster[j].Employee = name}

\* C11: in every successful result, an employee who is immune on a public
\* holiday of the horizon (by the input last-duty-on-holiday date) has no
\* decision variable and no roster record on that date, bid or no bid.
C11_Immunity ==
    /\ \A k \in 1..Len(variables) :
          ~(/\ variables[k].key[2] \in public_holidays
            /\ is_immune(EmployeeNamed(variables[k].key[1]), variables[k].key[2]))
    /\ Success =>
          \A j \in RosterIdx :
             ~(/\ result.roster[j].Date \in public_holidays
               /\ is_immune(EmployeeNamed(result.roster[j].Employee), result.roster[j].Date))

\* a successful roster over a public holiday that an immune roster member
\* bid for
C11_Witness ==
    /\ Success
    /\ \E i \in EmpIdx : \E k \in 1..Len(date_range) :
          /\ date_range[k] \in public_holidays
          /\ is_immune(employees[i], date_range[k])
          /\ date_range[k] \in employees[i].ph_bids

\* the roster members with a decision variable for slot (d, s)
Candidates(d, s) == {n \in Names : VarsOn({n}, d, s) # {}}

\* C12: in every successful result, on every public holiday of the horizon
\* for which some bidder has a decision variable for the Org PH slot, that
\* slot is filled by exactly one employee, who bid for the date.
C12_BidPriority ==
    Success =>
        \A k \in 1..Len(date_range) :
           LET d == date_range[k]
           IN (d \in public_holidays /\ Bidders(d) \cap Candidates(d, "ORG_PH") # {}) =>
                 /\ Cardinality(RecordsOf(d, "ORG_PH")) = 1
                 /\ \A j \in RecordsOf(d, "ORG_PH") : d \in EmployeeNamed(result.roster[j].Employee).ph_bids

\* a successful roster over a public holiday where a bidder and a non-bidder
\* both had a decision variable for the Org PH slot
C12_Witness ==
    /\ Success
    /\ \E k \in 1..Len(date_range) :
          /\ date_range[k] \in public_holidays
          /\ Bidders(date_range[k]) \cap Candidates(date_range[k], "ORG_PH") # {}
          /\ Candidates(date_range[k], "ORG_PH") \ Bidders(date_range[k]) # {}

\* the second half of the bid rule: when employees bid for a public holiday but
\* no bidder has a decision variable for Org PH, no successful roster has a
\* non-bidder in the slot (the negation of what the rule allows)
NoNonBidderFillsOrgPH ==
    ~(/\ Success
      /\ \E k \in 1..Len(date_range) :
            LET d == date_range[k]
            IN /\ d \in public_holidays
               /\ Bidders(d) # {}
               /\ Bidders(d) \cap Candidates(d, "ORG_PH") = {}
               /\ \E j \in RecordsOf(d, "ORG_PH") : result.roster[j].Employee \notin Bidders(d))

\* C13: in every successful result, each employee whose role has a cap in the
\* table (0 included) has at most that many roster records over the horizon.
C13_RoleCap ==
    Success =>
        \A i \in EmpIdx :
           employees[i].role \in DOMAIN role_max_shifts =>
              Cardinality(RecordsFor(employees[i].name)) <= role_max_shifts[employees[i].role]

\* a successful roster under a cap table, where one employee with decision
\* variables is capped at 0 and another works exactly the cap of the role
C13_Witness ==
    /\ Success
    /\ \E i \in EmpIdx :
          /\ employees[i].role \in DOMAIN role_max_shifts
          /\ role_max_shifts[employees[i].role] = 0
          /\ EmpVars(employees[i].name) # {}
    /\ \E i \in EmpIdx :
          /\ employees[i].role \in DOMAIN role_max_shifts
          /\ role_max_shifts[employees[i].role] > 0
          /\ Cardinality(RecordsFor(employees[i].name)) = role_max_shifts[employees[i].role]

\* the shift whose display value is v
ShiftOfValue(v) == CHOOSE s \in Shift : ShiftValue(s) = v

RECURSIVE TableSum(_)
\* the point table's values (hundredths) summed over a set of roster records
TableSum(J) ==
    IF J = {} THEN 0
    ELSE LET j == CHOOSE x \in J : TRUE
         IN point_values[ShiftOfValue(result.roster[j].Shift)] + TableSum(J \ {j})

\* C14: every successful result has one summary record per input employee, in
\* input order; its Points Earned is the sum of the point table's values over
\* exactly the roster records of that employee (0 without any), its Starting
\* Points the input points, and its Total Points the sum of the two.
C14_PointsSummary ==
    Success =>
        /\ Len(result.summary) = Len(employees)
        /\ \A i \in EmpIdx :
              LET r == result.summary[i]
              IN /\ r.Employee = employees[i].name
                 /\ r.StartingPoints = employees[i].ytd_points * 10
                 /\ r.PointsEarned * 10 = TableSum(RecordsFor(employees[i].name))
                 /\ r.TotalPoints = r.StartingPoints + r.PointsEarned

\* a successful result where one employee with starting points earned
\* something and another employee earned nothing
C14_Witness ==
    /\ Success
    /\ \E i, j \in EmpIdx :
          /\ result.summary[i].PointsEarned = 0
          /\ result.summary[j].PointsEarned > 0
          /\ result.summary[j].StartingPoints > 0

\* C15: solve() called with an empty date horizon does not return a result
\* (neither a roster with a summary nor a diagnostics list): the call is
\* signaled to the caller as a failure.
C15_EmptyHorizonSignalled ==
    date_range = <<>> => ~Done

\* C16: what solve() returns is either a roster and a summary with an empty
\* diagnostics list, or no roster and no summary with a non-empty diagnostics
\* list; after a failed search the diagnostics are the one generic line.
C16_OutcomeShapes ==
    Done =>
        /\ \/ result.has_frames /\ result.diagnostics = <<>>
           \/ /\ ~result.has_frames
              /\ result.roster = <<>>
              /\ result.summary = <<>>
              /\ result.diagnostics # <<>>
        /\ (status \notin {"NOT_RUN", "OPTIMAL", "FEASIBLE"}) => result.diagnostics = <<LogicConflict>>
        /\ status = "NOT_RUN" => ~result.has_frames
        /\ status \in {"OPTIMAL", "FEASIBLE"} => result.has_frames

\* solve() returned after a search that proved the model infeasible although
\* every slot had several candidates
C16_Witness ==
    /\ Done
    /\ status = "INFEASIBLE"
    /\ ~result.has_frames
    /\ Len(variables) > Len(Slots)
    /\ Len(result.diagnostics) = 1

\* C17: a second solve() call on the same object returns the outcome kind and
\* the diagnostics list the first call returned, and the model it searches
\* holds the BoolVars and the totals of that call alone.
C17_SecondCallFromScratch ==
    (Done /\ returned # <<>>) =>
        /\ result.has_frames = returned[1].has_frames
        /\ result.diagnostics = returned[1].diagnostics
        /\ model_vars = Len(variables)
        /\ Len(employee_totals) <= Len(employees)

\* the last-duty date l advanced by two years, a day that does not exist in
\* the target month clamped to the last day of that month
AdvancedDate(l) ==
    LET y    == l[1] + 2
        last == DaysInMonth(y, l[2])
    IN <<y, l[2], IF l[3] > last THEN last ELSE l[3]>>

\* C18: is_immune(employee, day) is true iff the employee has a
\* last-duty-on-holiday date and day is strictly before that date advanced by
\* two years (Feb 29 clamped to Feb 28).
C18_IsImmune ==
    (call.fn = "is_immune" /\ call.done) =>
        (call.ret <=> /\ call.emp.last_ph_date # None
                      /\ Ordinal(call.day) < Ordinal(AdvancedDate(call.emp.last_ph_date)))

\* is_immune answered true for the day before the clamped end date of a
\* window that began on a Feb 29
C18_Witness ==
    /\ call.fn = "is_immune"
    /\ call.done
    /\ call.emp.last_ph_date = <<2024, 2, 29>>
    /\ call.day = <<2026, 2, 27>>
    /\ call.ret

\* C19: in every successful result no employee has roster records on two
\* different public holidays of the horizon.
C19_OneHolidayDutyPerHorizon ==
    Success =>
        \A i, j \in RosterIdx :
           (/\ result.roster[i].Employee = result.roster[j].Employee
            /\ result.roster[i].Date \in public_holidays
            /\ result.roster[j].Date \in public_holidays)
           => result.roster[i].Date = result.roster[j].Date

\* the cell holds text with a character that is not a space
RealText(cell) == cell.kind = "str" /\ \E i \in 1..Len(cell.chars) : cell.chars[i] # " "

\* the row has a name
HasName(row) == "Name" \in DOMAIN row /\ RealText(row.Name)

\* the row's Team cell is not missing, empty, blank or null
HasTeam(row) == "Team" \in DOMAIN row /\ RealText(row.Team)

\* C20: load_employees produces an Employee for exactly the rows that have a
\* name and a team: a named row whose Team cell is missing, empty, blank or
\* null yields none.
C20_NoTeamRejected ==
    (call.fn = "load_employees" /\ call.done) =>
        Len(call.ret) = Len(SelectSeq(call.sheet, LAMBDA r : HasName(r) /\ HasTeam(r)))
====
